---- MODULE Spec2Model ----
(***************************************************************************)
(* Model of validator.py: the checkpointed pagination crawler              *)
(* (build_parts_db with save_status / fetch_status and the record upsert   *)
(* parse_and_insert_response_parts), the matcher match_parts and the       *)
(* validation pass validate_parts.                                         *)
(*                                                                         *)
(* A Python value that may be None is a sequence of length 0 or 1:         *)
(* None is <<>>, a present value x is <<x>>.                               *)
(***************************************************************************)
EXTENDS Integers, Sequences, FiniteSets, TLC

VARIABLES
    pc,             \* position of build_parts_db, or the state the run ended in
    exit_code,      \* argument of exit(), 0 while none was called
    graceful_exit,  \* the module-level cancellation flag
    next_urls,      \* local list of pending urls
    meta,           \* local meta dict (None before the run seeds it)
    url,            \* local url of the current iteration (None before the first pop)
    file,           \* validator_status.pickle
    parts,          \* rows of the Part table, in insertion order
    now,            \* datetime.now(), in days
    found,          \* history: the aisler ids the upsert of the page just processed found stored
    done,           \* history: what the current iteration did so far ("enqueue", "upsert")
    crawl,          \* history: "none", or a crawl popped a url and has not completed:
                    \*   "popped" before it saved a checkpoint, "saved" after
    query_item,     \* match_parts argument: the value of the item to match
    related_parts,  \* match_parts argument: the candidate parts
    best_match,     \* result of match_parts (None before the call)
    mpc,            \* position of the matching pass
    page,           \* the page handed to the upsert: its data and the answers of
                    \*   the database (None while the crawler draws them step by step)
    items,          \* validate_parts: the Item rows, their value and their part_id
    item_no         \* validate_parts: index of the item the loop is at

vars == <<pc, exit_code, graceful_exit, next_urls, meta, url, file, parts, now, found,
          done, crawl,
          query_item, related_parts, best_match, mpc, page, items, item_no>>

crawlVars == <<pc, exit_code, graceful_exit, next_urls, meta, url, file, parts, now,
               found, done, crawl>>

matchVars == <<query_item, related_parts, best_match, mpc>>

upsertVars == <<page>>

validateVars == <<items, item_no>>

----------------------------------------------------------------------------
(* Bounds of the model *)

MaxOffset == 2      \* offsets a response may report: 0..MaxOffset
MaxItems == 2       \* payloads in one page
MaxClock == 7       \* last day the clock reaches
MaxLen == 2         \* characters in a query value or an mpn
MaxCands == 2       \* candidates handed to match_parts
MaxQueries == 2     \* Item rows the validation pass goes through

(* Program constants *)

Week == 7               \* timedelta(weeks=1), in days
HTTP_OK == 200
EXIT_TRANSPORT == -5    \* exit(-5)
EXIT_OFFSET_LOOP == -10 \* exit(-10)
EXIT_URL_LOOP == -6     \* exit(-6)
EXIT_INSERT == -7       \* exit(-7)

----------------------------------------------------------------------------
(* Optional values *)

None == <<>>
Some(x) == <<x>>
IsNone(o) == o = <<>>
Get(o) == o[1]

----------------------------------------------------------------------------
(* The values the environment supplies *)

Parts_Url == "u1"
URLs == {"u1", "u2"}

AislerIds == {"p1", "p2"}

AttributeSet ==
    { [mpn |-> <<"A">>, manufacturer |-> "m1", datasheet |-> "d1", description |-> "x1"],
      [mpn |-> <<"A", "B">>, manufacturer |-> "m2", datasheet |-> "d2", description |-> "x2"] }

\* one element of the "data" array
Payloads == [id : AislerIds, attributes : AttributeSet]

SeqsUpTo(S, n) == UNION { [1..k -> S] : k \in 0..n }

\* the "data" array of a response, None when the key is missing
DataSet == {None} \cup {Some(d) : d \in SeqsUpTo(Payloads, MaxItems)}

\* the "meta" object of a response
ResponseMetas == [total : {MaxOffset + 1}, offset : 0..MaxOffset, limit : {1}]

\* the "links" object of a response
LinkSet == [next : {None} \cup {Some(u) : u \in URLs}]

\* status, "meta" and "links" of a response
OkResponses ==
    [status_code : {HTTP_OK},
     meta : {None} \cup {Some(m) : m \in ResponseMetas},
     links : {None} \cup {Some(l) : l \in LinkSet}]

ErrorResponses == [status_code : {500}, meta : {None}, links : {None}]

Responses == OkResponses \cup ErrorResponses

\* what the database does with one payload
Outcomes == {"ok", "integrity", "error"}

\* the answers of the database to the payloads of a page; the payloads after
\* an "error" never reach the database, their entries repeat the "error"
OutcomeSeqs(data) ==
    IF IsNone(data) THEN {<<>>}
    ELSE {o \in [1..Len(Get(data)) -> Outcomes] :
             \A k \in 1..(Len(Get(data)) - 1) : o[k] = "error" => o[k + 1] = "error"}

----------------------------------------------------------------------------
(* The checkpoint file *)

NoFile == [exists |-> FALSE, readable |-> FALSE,
           finished |-> None, meta |-> None, next_urls |-> None]

CorruptFile == [exists |-> TRUE, readable |-> FALSE,
                finished |-> None, meta |-> None, next_urls |-> None]

\* save_status that never stamps the date
save_status_unstamped(urls, m, finished) ==
    [exists |-> TRUE, readable |-> TRUE, finished |-> None, meta |-> m, next_urls |-> urls]

\* save_status(next_urls, meta, finished): the file written
save_status(urls, m, finished) ==
    [exists |-> TRUE, readable |-> TRUE,
     finished |-> IF finished THEN Some(now) ELSE None,
     meta |-> m,
     next_urls |-> urls]

\* fetch_status that never finds the file
fetch_status_absent == [next_urls |-> None, meta |-> None, finished |-> None]

\* fetch_status(): the triple returned
fetch_status ==
    IF file.exists /\ file.readable
    THEN [next_urls |-> file.next_urls, meta |-> file.meta, finished |-> file.finished]
    ELSE [next_urls |-> None, meta |-> None, finished |-> None]

\* a default accumulator of zeros
DefaultMeta_zero == [total |-> 0, offset |-> 0, limit |-> 0]

\* lines 227-231
DefaultMeta == [total |-> -1, offset |-> -1, limit |-> -1]

\* the cooldown test turned around
InCooldown_reversed(finished) == Get(finished) + Week < now

\* line 220: the last crawl finished less than a week ago
InCooldown(finished) == Get(finished) + Week > now

----------------------------------------------------------------------------
(* parse_and_insert_response_parts *)

\* lines 119-135: the Part built from one payload
db_part(part) ==
    [aisler_id |-> part.id,
     mpn |-> part.attributes.mpn,
     manufacturer |-> part.attributes.manufacturer,
     description |-> part.attributes.description,
     datasheet |-> part.attributes.datasheet]

\* the lookup that finds nothing
in_db_blind(db, aisler_id) == None

\* line 138: session.query(Part).filter(Part.aisler_id == ...).first()
in_db(db, aisler_id) ==
    LET hits == {k \in 1..Len(db) : db[k].aisler_id = aisler_id}
    IN  IF hits = {} THEN None
        ELSE Some(db[CHOOSE k \in hits : \A j \in hits : k <= j])

\* lines 141-149: the table after one payload whose commit succeeds.
\* Line 143 rebinds the local name in_db; the stored row is not touched and
\* db_part is never added to the session.
commit_part(db, part) ==
    IF ~IsNone(in_db(db, part.id)) THEN db ELSE Append(db, db_part(part))

\* an upsert that gives the page up at the first IntegrityError
RECURSIVE insert_from_stop(_, _, _, _, _)
insert_from_stop(db, data, outcomes, i, hits) ==
    IF i > Len(data) THEN [parts |-> db, raised |-> FALSE, found |-> hits]
    ELSE IF outcomes[i] = "error" THEN [parts |-> db, raised |-> TRUE, found |-> hits]
    ELSE IF outcomes[i] = "integrity"
    THEN [parts |-> db, raised |-> FALSE, found |-> hits]
    ELSE insert_from_stop(commit_part(db, data[i]), data, outcomes, i + 1,
                          IF IsNone(in_db(db, data[i].id)) THEN hits
                          ELSE hits \cup {data[i].id})

\* lines 115-155 from payload i on; outcomes[k] is what the database does with
\* payload k: "ok", "integrity" (IntegrityError, line 150, swallowed) or
\* "error" (any other exception, re-raised at line 153). The result: the
\* table, whether an exception left the function, and the ids line 141 found.
RECURSIVE insert_from(_, _, _, _, _)
insert_from(db, data, outcomes, i, hits) ==
    IF i > Len(data) THEN [parts |-> db, raised |-> FALSE, found |-> hits]
    ELSE IF outcomes[i] = "error" THEN [parts |-> db, raised |-> TRUE, found |-> hits]
    ELSE IF outcomes[i] = "integrity"
    THEN insert_from(db, data, outcomes, i + 1, hits)
    ELSE insert_from(commit_part(db, data[i]), data, outcomes, i + 1,
                     IF IsNone(in_db(db, data[i].id)) THEN hits
                     ELSE hits \cup {data[i].id})

\* parse_and_insert_response_parts(response_data): iterating None raises TypeError
parse_and_insert_response_parts(db, response_data, outcomes) ==
    IF IsNone(response_data) THEN [parts |-> db, raised |-> TRUE, found |-> {}]
    ELSE insert_from(db, Get(response_data), outcomes, 1, {})

----------------------------------------------------------------------------
(* build_parts_db *)

Ended == {"Idle", "Completed", "Interrupted", "Failed"}
Running == {"loop", "fetch", "insert", "final"}

\* the offset test with > for >=
OffsetLoop_strict(m, response_meta) == m.offset > response_meta.offset

\* line 271
OffsetLoop(m, response_meta) == m.offset >= response_meta.offset

\* the url test left out
UrlLoop_never(u, next_url) == FALSE

\* line 294
UrlLoop(u, next_url) == u = next_url

\* the status test left out
TransportOk_always(r) == TRUE

\* line 257
TransportOk(r) == r.status_code = HTTP_OK

\* a loop test that does not look at the flag
LoopCondition_deaf == Len(next_urls) > 0

\* line 245
LoopCondition == Len(next_urls) > 0 /\ ~graceful_exit

\* line 276: meta.update(response_meta)
Merged(m, response_meta) ==
    [total |-> response_meta.total, offset |-> response_meta.offset,
     limit |-> response_meta.limit]

\* lines 224-235: the accumulator and the queue a run starts with
SeedMeta(st) ==
    IF ~IsNone(st.finished) \/ IsNone(st.meta) THEN DefaultMeta ELSE Get(st.meta)

\* a queue test by truth value: an empty pending list counts as none
SeedUrls_falsy(st) ==
    IF IsNone(st.next_urls) \/ st.next_urls = Some(<<>>) THEN <<Parts_Url>>
    ELSE Get(st.next_urls)

\* a queue that always starts over
SeedUrls_restart(st) == <<Parts_Url>>

SeedUrls(st) ==
    IF IsNone(st.next_urls) THEN <<Parts_Url>> ELSE Get(st.next_urls)

\* lines 215-221
EntryGuard(st) == ~IsNone(st.finished) /\ InCooldown(st.finished)

\* A new process runs build_parts_db: lines 213-243
Invoke ==
    /\ pc \in Ended
    /\ LET st == fetch_status IN
        /\ graceful_exit' = FALSE
        /\ exit_code' = 0
        /\ url' = None
        /\ found' = {}
        /\ done' = {}
        /\ IF EntryGuard(st)
           THEN /\ pc' = "Completed"
                /\ next_urls' = <<>>
                /\ meta' = None
                /\ crawl' = "none"
           ELSE /\ pc' = "loop"
                /\ next_urls' = SeedUrls(st)
                /\ meta' = Some(SeedMeta(st))
                /\ UNCHANGED crawl
    /\ UNCHANGED <<file, parts, now>>
    /\ UNCHANGED <<matchVars, upsertVars, validateVars>>

\* lines 245-246: the loop test succeeds and the head url is popped
LoopEnter ==
    /\ pc = "loop"
    /\ LoopCondition
    /\ url' = Some(Head(next_urls))
    /\ next_urls' = Tail(next_urls)
    /\ pc' = "fetch"
    /\ found' = {}
    /\ done' = {}
    /\ crawl' = IF crawl = "none" THEN "popped" ELSE crawl
    /\ UNCHANGED <<exit_code, graceful_exit, meta, file, parts, now>>
    /\ UNCHANGED <<matchVars, upsertVars, validateVars>>

\* line 245: the loop test fails
LoopExit ==
    /\ pc = "loop"
    /\ ~LoopCondition
    /\ pc' = "final"
    /\ found' = {}
    /\ done' = {}
    /\ UNCHANGED crawl
    /\ UNCHANGED <<exit_code, graceful_exit, next_urls, meta, url, file, parts, now>>
    /\ UNCHANGED <<matchVars, upsertVars, validateVars>>

\* lines 255-298: the request for url is answered with r (its status, "meta"
\* and "links"; "data" is read by InsertAndSave)
Fetch(r) ==
    /\ pc = "fetch"
    /\ IF ~TransportOk(r)
       THEN /\ pc' = "Failed"
            /\ exit_code' = EXIT_TRANSPORT
            /\ UNCHANGED <<meta, next_urls>>
       ELSE IF ~IsNone(r.meta) /\ OffsetLoop(Get(meta), Get(r.meta))
       THEN /\ pc' = "Failed"
            /\ exit_code' = EXIT_OFFSET_LOOP
            /\ UNCHANGED <<meta, next_urls>>
       ELSE /\ meta' = IF IsNone(r.meta) THEN meta
                       ELSE Some(Merged(Get(meta), Get(r.meta)))
            /\ IF ~IsNone(r.links) /\ ~IsNone(Get(r.links).next)
               THEN IF UrlLoop(Get(url), Get(Get(r.links).next))
                    THEN /\ pc' = "Failed"
                         /\ exit_code' = EXIT_URL_LOOP
                         /\ UNCHANGED next_urls
                    ELSE /\ next_urls' = Append(next_urls, Get(Get(r.links).next))
                         /\ pc' = "insert"
                         /\ UNCHANGED exit_code
               ELSE /\ pc' = "insert"
                    /\ UNCHANGED <<next_urls, exit_code>>
    /\ done' = IF next_urls' # next_urls THEN {"enqueue"} ELSE {}
    /\ UNCHANGED <<graceful_exit, url, file, parts, now, found, crawl>>
    /\ UNCHANGED <<matchVars, upsertVars, validateVars>>

\* lines 280-284 and 300-309: the "data" of the response is response_data, the
\* database answers payload k with outcomes[k]; the upsert of the page, then
\* the save of the finally clause, which also runs while exit(-7) unwinds
InsertAndSave(response_data, outcomes) ==
    /\ pc = "insert"
    /\ LET res == parse_and_insert_response_parts(parts, response_data, outcomes) IN
        /\ parts' = res.parts
        /\ found' = res.found
        /\ file' = save_status(Some(next_urls), meta, FALSE)
        /\ done' = done \cup {"upsert"}
        /\ crawl' = "saved"
        /\ IF res.raised
           THEN pc' = "Failed" /\ exit_code' = EXIT_INSERT
           ELSE pc' = "loop" /\ UNCHANGED exit_code
    /\ UNCHANGED <<graceful_exit, next_urls, meta, url, now>>
    /\ UNCHANGED <<matchVars, upsertVars, validateVars>>

\* a final save that stamps the date for a cancelled run too
Finish_stamps ==
    /\ pc = "final"
    /\ IF ~graceful_exit
       THEN /\ file' = save_status(None, None, TRUE)
            /\ pc' = "Completed"
            /\ crawl' = "none"
       ELSE /\ file' = save_status(Some(next_urls), meta, TRUE)
            /\ pc' = "Interrupted"
            /\ crawl' = IF crawl = "none" THEN "none" ELSE "saved"
    /\ UNCHANGED <<exit_code, graceful_exit, next_urls, meta, url, parts, now, found,
                   done>>
    /\ UNCHANGED <<matchVars, upsertVars, validateVars>>

\* lines 311-316
Finish ==
    /\ pc = "final"
    /\ IF ~graceful_exit
       THEN /\ file' = save_status(None, None, TRUE)
            /\ pc' = "Completed"
            /\ crawl' = "none"
       ELSE /\ file' = save_status(Some(next_urls), meta, FALSE)
            /\ pc' = "Interrupted"
            /\ crawl' = IF crawl = "none" THEN "none" ELSE "saved"
    /\ UNCHANGED <<exit_code, graceful_exit, next_urls, meta, url, parts, now, found,
                   done>>
    /\ UNCHANGED <<matchVars, upsertVars, validateVars>>

\* graceful_skip, lines 40-50, registered while build_parts_db runs (lines 373-375)
Signal ==
    /\ pc \in Running
    /\ graceful_exit' = TRUE
    /\ UNCHANGED <<pc, exit_code, next_urls, meta, url, file, parts, now, found,
                   done, crawl>>
    /\ UNCHANGED <<matchVars, upsertVars, validateVars>>

\* A day passes. The program reads the clock at lines 178 and 220 only, and
\* compares it with the finished date of the file only: the days are counted
\* from the first finished crawl on, between the runs.
Tick ==
    /\ pc \in Ended
    /\ ~IsNone(file.finished)
    /\ now < MaxClock
    /\ now' = now + 1
    /\ UNCHANGED <<pc, exit_code, graceful_exit, next_urls, meta, url, file, parts,
                   found, done, crawl>>
    /\ UNCHANGED <<matchVars, upsertVars, validateVars>>

Step ==
    \/ LoopEnter
    \/ LoopExit
    \/ \E r \in Responses : Fetch(r)
    \/ \E d \in DataSet : \E o \in OutcomeSeqs(d) : InsertAndSave(d, o)
    \/ Finish

Init ==
    /\ pc = "Idle"
    /\ exit_code = 0
    /\ graceful_exit = FALSE
    /\ next_urls = <<>>
    /\ meta = None
    /\ url = None
    /\ file \in {NoFile, CorruptFile}
    /\ parts = <<>>
    /\ now = 0
    /\ found = {}
    /\ done = {}
    /\ crawl = "none"
    /\ query_item = <<>>
    /\ related_parts = <<>>
    /\ best_match = None
    /\ mpc = "off"
    /\ page = None
    /\ items = <<>>
    /\ item_no = 0

Next ==
    \/ Invoke
    \/ Step
    \/ Signal
    \/ Tick

Spec == Init /\ [][Next]_vars

\* the process executes its next statement and requests.get returns
FairSpec == Spec /\ WF_vars(Step)

----------------------------------------------------------------------------
(* The crawl when the catalog and the database behave: every request is     *)
(* answered with status 200 and a "meta" whose offset is above the recorded *)
(* one, no page links to itself, the page with the last offset has no next  *)
(* link, every page has a "data" array, every commit succeeds and no signal *)
(* arrives.                                                                 *)

WellBehaved(r) ==
    /\ TransportOk(r)
    /\ ~IsNone(r.meta)
    /\ Get(r.meta).offset > Get(meta).offset
    /\ (~IsNone(r.links) /\ ~IsNone(Get(r.links).next)) =>
           /\ Get(Get(r.links).next) # Get(url)
           /\ Get(r.meta).offset < MaxOffset

AllOk(data) == [k \in 1..Len(Get(data)) |-> "ok"]

WellStep ==
    \/ LoopEnter
    \/ LoopExit
    \/ \E r \in Responses : Fetch(r) /\ WellBehaved(r)
    \/ \E d \in DataSet \ {None} : InsertAndSave(d, AllOk(d))
    \/ Finish

WellNext ==
    \/ Invoke
    \/ WellStep
    \/ Tick

\* the process executes its next statement and requests.get returns
WellSpec == Init /\ [][WellNext]_vars /\ WF_vars(WellStep)

----------------------------------------------------------------------------
(* match_parts *)

Alphabet == {"A", "B"}

\* values of Item.value and of Part.mpn
Strings == SeqsUpTo(Alphabet, MaxLen)

Min2(a, b) == IF a <= b THEN a ELSE b

\* jellyfish.levenshtein_distance
RECURSIVE levenshtein_distance(_, _)
levenshtein_distance(s, t) ==
    IF Len(s) = 0 THEN Len(t)
    ELSE IF Len(t) = 0 THEN Len(s)
    ELSE Min2(Min2(levenshtein_distance(Tail(s), t) + 1,
                   levenshtein_distance(s, Tail(t)) + 1),
              levenshtein_distance(Tail(s), Tail(t))
                  + (IF Head(s) = Head(t) THEN 0 ELSE 1))

\* the comparison with <= for <
Better_or_equal(best, dist) == IsNone(best.dist) \/ dist <= Get(best.dist)

\* line 332
Better(best, dist) == IsNone(best.dist) \/ dist < Get(best.dist)

\* lines 328-334 from candidate i on
RECURSIVE match_from(_, _, _, _)
match_from(value, candidates, i, best) ==
    IF i > Len(candidates) THEN best
    ELSE LET dist == levenshtein_distance(value, candidates[i].mpn) IN
         match_from(value, candidates, i + 1,
                    IF Better(best, dist)
                    THEN [part |-> Some(candidates[i]), dist |-> Some(dist)]
                    ELSE best)

\* match_parts(query_item, related_parts), lines 327-335
match_parts(value, candidates) ==
    match_from(value, candidates, 1, [part |-> None, dist |-> None]).part

\* the call of match_parts
Match ==
    /\ mpc = "call"
    /\ best_match' = match_parts(query_item, related_parts)
    /\ mpc' = "returned"
    /\ UNCHANGED <<query_item, related_parts>>
    /\ UNCHANGED <<crawlVars, upsertVars, validateVars>>

\* the arguments: a value and a list of Part rows, told apart by their id
MatchInit ==
    /\ pc = "Idle"
    /\ exit_code = 0
    /\ graceful_exit = FALSE
    /\ next_urls = <<>>
    /\ meta = None
    /\ url = None
    /\ file = NoFile
    /\ parts = <<>>
    /\ now = 0
    /\ found = {}
    /\ done = {}
    /\ crawl = "none"
    /\ query_item \in Strings
    /\ \E mpns \in SeqsUpTo(Strings, MaxCands) :
           related_parts = [k \in 1..Len(mpns) |-> [id |-> k, mpn |-> mpns[k]]]
    /\ best_match = None
    /\ mpc = "call"
    /\ page = None
    /\ items = <<>>
    /\ item_no = 0

MatchNext == Match

MatchSpec == MatchInit /\ [][MatchNext]_vars

----------------------------------------------------------------------------
(* The upsert of one page, lines 300-309, on enumerated pages: the run has    *)
(* fetched the start url once more, after an earlier iteration had saved a   *)
(* checkpoint that names it as pending; the table holds what the pages       *)
(* before stored.                                                            *)

\* the tables the upsert can have built: rows with distinct aisler ids
Tables ==
    {t \in SeqsUpTo({db_part(p) : p \in Payloads}, Cardinality(AislerIds)) :
        \A i, j \in 1..Len(t) : i # j => t[i].aisler_id # t[j].aisler_id}

UpsertInit ==
    /\ pc = "insert"
    /\ exit_code = 0
    /\ graceful_exit = FALSE
    /\ url = Some(Parts_Url)
    /\ meta = Some(DefaultMeta)
    /\ next_urls \in {<<>>, <<"u2">>}
    /\ done = IF next_urls = <<>> THEN {} ELSE {"enqueue"}
    /\ file = [exists |-> TRUE, readable |-> TRUE, finished |-> None,
               meta |-> Some(DefaultMeta), next_urls |-> Some(<<Parts_Url>>)]
    /\ parts \in Tables
    /\ now = 0
    /\ found = {}
    /\ crawl = "saved"
    /\ query_item = <<>>
    /\ related_parts = <<>>
    /\ best_match = None
    /\ mpc = "off"
    /\ \E response_data \in DataSet : \E outcomes \in OutcomeSeqs(response_data) :
           page = Some([data |-> response_data, outcomes |-> outcomes])
    /\ items = <<>>
    /\ item_no = 0

\* lines 300-309 for the page drawn
UpsertPage == ~IsNone(page) /\ InsertAndSave(Get(page).data, Get(page).outcomes)

UpsertNext == UpsertPage

UpsertSpec == UpsertInit /\ [][UpsertNext]_vars

----------------------------------------------------------------------------
(* validate_parts, lines 338-363, after a run of build_parts_db that found   *)
(* the crawl finished less than a week ago.                                  *)

\* the values of Item.value: the empty string and strings in either case
ItemValues == {<<>>, <<"a">>, <<"B">>, <<"A", "B">>, <<"B", "A">>}

\* the case folding of ILIKE
Lower(c) == IF c = "A" THEN "a" ELSE IF c = "B" THEN "b" ELSE c

LowerSeq(s) == [k \in 1..Len(s) |-> Lower(s[k])]

\* s LIKE '%sub%'
Contains(s, sub) ==
    \E i \in 1..(Len(s) - Len(sub) + 1) : SubSeq(s, i, i + Len(sub) - 1) = sub

\* a filter that tells the cases apart (like for ilike)
like(mpn, value) == Contains(mpn, value)

\* line 350: Part.mpn.ilike(f"%{item.Item.value}%")
ilike(mpn, value) == Contains(LowerSeq(mpn), LowerSeq(value))

\* the orders in which the query of lines 349-351, which has no ORDER BY, can
\* return the rows of the set hits
Orders(hits) ==
    {o \in [1..Cardinality(hits) -> hits] :
        \A i, j \in 1..Cardinality(hits) : i # j => o[i] # o[j]}

\* lines 349-357, one pass of the loop body; Part.id is the number of the row.
\* ok: the commit of line 357 succeeds; if it does not, the exception leaves
\* the function and session.close() drops the assignment of line 355.
ValidateItem(order, ok) ==
    /\ mpc = "validate"
    /\ item_no <= Len(items)
    /\ LET value == items[item_no].value
           cands == [i \in 1..Len(order) |-> [id |-> order[i], mpn |-> parts[order[i]].mpn]]
       IN  /\ order \in Orders({k \in 1..Len(parts) : ilike(parts[k].mpn, value)})
           /\ query_item' = value
           /\ related_parts' = cands
           /\ IF Len(cands) > 0
              THEN /\ best_match' = match_parts(value, cands)
                   /\ IF ok
                      THEN /\ items' = [items EXCEPT
                                           ![item_no].part_id = Some(Get(best_match').id)]
                           /\ item_no' = item_no + 1
                           /\ UNCHANGED mpc
                      ELSE /\ mpc' = "raised"
                           /\ UNCHANGED <<items, item_no>>
              ELSE /\ ok
                   /\ item_no' = item_no + 1
                   /\ UNCHANGED <<best_match, items, mpc>>
    /\ UNCHANGED <<crawlVars, upsertVars>>

\* the loop is through: lines 360-361
ValidateEnd ==
    /\ mpc = "validate"
    /\ item_no > Len(items)
    /\ mpc' = "closed"
    /\ UNCHANGED <<query_item, related_parts, best_match>>
    /\ UNCHANGED <<crawlVars, upsertVars, validateVars>>

\* line 346: the Item rows, with or without a part_id of an earlier pass
ValidateInit ==
    /\ pc = "Completed"
    /\ exit_code = 0
    /\ graceful_exit = FALSE
    /\ next_urls = <<>>
    /\ meta = None
    /\ url = None
    /\ file = [exists |-> TRUE, readable |-> TRUE, finished |-> Some(0),
               meta |-> None, next_urls |-> None]
    /\ parts \in Tables
    /\ now = 0
    /\ found = {}
    /\ done = {}
    /\ crawl = "none"
    /\ query_item = <<>>
    /\ related_parts = <<>>
    /\ best_match = None
    /\ mpc = "validate"
    /\ page = None
    /\ items \in SeqsUpTo([value : ItemValues, part_id : {None, Some(1)}], MaxQueries)
    /\ item_no = 1

ValidateNext ==
    \/ \E order \in SeqsUpTo(1..Len(parts), Len(parts)) : \E ok \in BOOLEAN :
           ValidateItem(order, ok)
    \/ ValidateEnd

ValidateSpec == ValidateInit /\ [][ValidateNext]_vars

----------------------------------------------------------------------------
(* Properties *)

HasNext(r) == ~IsNone(r.links) /\ ~IsNone(Get(r.links).next)

\* C1: when every fetch succeeds with an offset above the recorded one, no
\* page links to itself, the last page has no next link, no upsert fails and
\* no signal arrives (WellSpec), a run of build_parts_db reaches Completed,
\* and in Completed the persisted checkpoint has finished set and no pending
\* urls.
C1_CleanCrawlCompletes ==
    /\ (pc \in Running) ~> (pc = "Completed")
    /\ [](pc = "Completed" =>
            /\ file.exists /\ file.readable
            /\ ~IsNone(file.finished)
            /\ IsNone(file.next_urls))

\* a crawl that fetched pages up to an offset of at least 1 and stored parts
\* has completed
C1_Witness ==
    /\ pc = "Completed"
    /\ ~IsNone(url)
    /\ Get(meta).offset >= 1
    /\ Len(parts) >= 1
    /\ ~IsNone(file.finished)

\* C2: a response whose "meta" offset is less than or equal to the recorded
\* offset ends the run Failed in the step that receives it, and that step
\* changes nothing else: the queue (its next url is not enqueued), the parts
\* table, the accumulator and the checkpoint file stay as they are.
C2_OffsetLoopAborts ==
    [][\A r \in OkResponses :
          (/\ Fetch(r)
           /\ ~IsNone(r.meta)
           /\ Get(r.meta).offset <= Get(meta).offset)
          => /\ pc' = "Failed"
             /\ exit_code' = EXIT_OFFSET_LOOP
             /\ next_urls' = next_urls
             /\ meta' = meta
             /\ parts' = parts
             /\ file' = file]_vars

\* a run failed on the offset test against an offset of an earlier page or of
\* the resumed checkpoint
C2_Witness ==
    /\ pc = "Failed"
    /\ exit_code = EXIT_OFFSET_LOOP
    /\ Get(meta).offset >= 0

\* C3: a fetched page (status 200) whose next link is the url just fetched
\* ends the run Failed in the step that receives it and the url is not
\* appended to the queue, whatever the "meta" of the page is.
C3_SelfLinkAborts ==
    [][\A r \in OkResponses :
          (/\ Fetch(r)
           /\ HasNext(r)
           /\ Get(Get(r.links).next) = Get(url))
          => /\ pc' = "Failed"
             /\ next_urls' = next_urls]_vars

\* a run failed on the url test
C3_Witness ==
    /\ pc = "Failed"
    /\ exit_code = EXIT_URL_LOOP
    /\ ~IsNone(url)

Range(q) == {q[k] : k \in 1..Len(q)}

HasPending(f) ==
    /\ f.exists /\ f.readable
    /\ ~IsNone(f.next_urls)
    /\ Get(f.next_urls) # <<>>

C5_CheckpointBehindUpsert ==
    [][\A d \in DataSet \ {None} : \A o \in OutcomeSeqs(d) :
          (/\ InsertAndSave(d, o)
           /\ \E k \in 1..Len(o) : o[k] = "error")
          => \/ file' = file
             \/ /\ HasPending(file')
                /\ Get(url) \in Range(Get(file'.next_urls))]_vars

\* C6: an invocation that loads a checkpoint with finished set less than a
\* week ago ends Completed at once: no url is popped, the checkpoint file and
\* the parts table are unchanged; and no run is ever past its loop test while
\* the file holds a finished date less than a week old.
C6_CooldownNoOp ==
    /\ [][(/\ Invoke
           /\ file.exists /\ file.readable
           /\ ~IsNone(file.finished)
           /\ now - Get(file.finished) < Week)
          => /\ pc' = "Completed"
             /\ IsNone(url')
             /\ file' = file
             /\ parts' = parts]_vars
    /\ []((pc \in {"fetch", "insert"} /\ ~IsNone(file.finished))
             => now - Get(file.finished) >= Week)

\* an invocation inside the cooldown window, after the clock moved, returned
\* at the entry guard (only that return leaves the local meta None)
C6_Witness ==
    /\ pc = "Completed"
    /\ IsNone(meta)
    /\ IsNone(url)
    /\ ~IsNone(file.finished)
    /\ now > Get(file.finished)
    /\ now < Get(file.finished) + Week

\* C7: after a page is upserted without database errors, a payload whose
\* aisler_id was already stored (and is the last of its id in the page) has
\* its field values in the stored record of that id.
C7_UpsertReflectsLatest ==
    [][\A d \in DataSet \ {None} :
          InsertAndSave(d, AllOk(d)) =>
              \A k \in 1..Len(Get(d)) :
                  (/\ ~IsNone(in_db(parts, Get(d)[k].id))
                   /\ \A j \in (k + 1)..Len(Get(d)) : Get(d)[j].id # Get(d)[k].id)
                  => in_db(parts', Get(d)[k].id) = Some(db_part(Get(d)[k]))]_vars

\* C8: the parts table never holds two rows with the same aisler_id, and no
\* step removes the row of an aisler_id.
C8_OneRecordPerId ==
    /\ [](\A i, j \in 1..Len(parts) :
             i # j => parts[i].aisler_id # parts[j].aisler_id)
    /\ [][\A k \in 1..Len(parts) :
             \E j \in 1..Len(parts') : parts'[j].aisler_id = parts[k].aisler_id]_vars

\* a page with a payload of a stored aisler_id was upserted while every id of
\* the model is stored
C8_Witness ==
    /\ pc = "loop"
    /\ found # {}
    /\ Len(parts) = Cardinality(AislerIds)

Dist(k) == levenshtein_distance(query_item, related_parts[k].mpn)

\* C9: for a non-empty candidate list match_parts returns the candidate at
\* the lowest index among those at the minimal edit distance from the query
\* value; the result is an element of the list.
C9_FirstClosest ==
    (mpc = "returned" /\ related_parts # <<>>) =>
        \E k \in 1..Len(related_parts) :
            /\ best_match = Some(related_parts[k])
            /\ \A j \in 1..Len(related_parts) : Dist(j) >= Dist(k)
            /\ \A j \in 1..(k - 1) : Dist(j) > Dist(k)

\* two candidates with different mpn tie at the minimal distance, above 0,
\* and the first of the two is returned
C9_Witness ==
    /\ mpc = "returned"
    /\ \E i, j \in 1..Len(related_parts) :
          /\ i < j
          /\ related_parts[i].mpn # related_parts[j].mpn
          /\ Dist(i) = Dist(j)
          /\ Dist(i) > 0
          /\ \A k \in 1..Len(related_parts) : Dist(k) >= Dist(i)
          /\ best_match = Some(related_parts[i])

\* C10: a response with a non-success status ends the run Failed with exit
\* code -5 in the step that receives it, without a call of the upsert and
\* without a save (the parts table and the checkpoint file are unchanged); in
\* that state the failed url is the head of the pending urls of the file when
\* the file has pending urls, and is Parts_Url when there is no file; and the
\* next invocation starts its loop with the failed url at the head of its
\* queue.
C10_TransportFailure ==
    /\ [][\A r \in ErrorResponses :
             Fetch(r) => /\ pc' = "Failed"
                         /\ exit_code' = EXIT_TRANSPORT
                         /\ file' = file
                         /\ parts' = parts]_vars
    /\ []((pc = "Failed" /\ exit_code = EXIT_TRANSPORT) =>
             /\ HasPending(file) => Head(Get(file.next_urls)) = Get(url)
             /\ ~file.exists => Get(url) = Parts_Url)
    /\ [][(pc = "Failed" /\ exit_code = EXIT_TRANSPORT /\ pc' # pc)
             => /\ pc' = "loop"
                /\ next_urls' # <<>>
                /\ Head(next_urls') = Get(url)]_vars

\* the fetch of a later page failed while the checkpoint of the page before
\* it names that url as pending
C10_Witness ==
    /\ pc = "Failed"
    /\ exit_code = EXIT_TRANSPORT
    /\ HasPending(file)
    /\ Head(Get(file.next_urls)) = Get(url)
    /\ Get(url) # Parts_Url
    /\ Len(parts) >= 1

\* C11: a 200 response that lacks meta, links or data is not an error. Without
\* meta the accumulator is left alone and the offset test does not fire;
\* without links nothing is enqueued and the self-link test does not fire;
\* without data nothing is upserted, the checkpoint is saved and the run goes
\* back to its loop test.
C11_MissingPartsTolerated ==
    /\ [][\A r \in OkResponses :
             (Fetch(r) /\ IsNone(r.meta))
                 => meta' = meta /\ ~(pc' = "Failed" /\ exit_code' = EXIT_OFFSET_LOOP)]_vars
    /\ [][\A r \in OkResponses :
             (Fetch(r) /\ IsNone(r.links))
                 => next_urls' = next_urls /\ ~(pc' = "Failed" /\ exit_code' = EXIT_URL_LOOP)]_vars
    /\ [][\A outcomes \in OutcomeSeqs(None) :
             InsertAndSave(None, outcomes)
                 => /\ parts' = parts
                    /\ file' = save_status(Some(next_urls), meta, FALSE)
                    /\ pc' = "loop"]_vars

\* C12: what save_status writes is what fetch_status returns. After the save
\* of an iteration, and after the final save of a cancelled run, the load
\* yields the saved queue and accumulator with no finished date; after the
\* final save of a run that was not cancelled it yields the date of the save;
\* nothing of the file written before shows through. With no file, or a file
\* that cannot be unpickled, the load yields (None, None, None) and the run
\* goes on from the start url and the default accumulator.
C12_SaveFetchRoundTrip ==
    /\ [][(pc = "insert" /\ pc' # pc)
             => fetch_status' = [next_urls |-> Some(next_urls),
                                 meta |-> meta,
                                 finished |-> None]]_vars
    /\ [][(Finish /\ graceful_exit)
             => fetch_status' = [next_urls |-> Some(next_urls),
                                 meta |-> meta,
                                 finished |-> None]]_vars
    /\ [][(Finish /\ ~graceful_exit)
             => fetch_status' = [next_urls |-> None,
                                 meta |-> None,
                                 finished |-> Some(now)]]_vars
    /\ []((~file.exists \/ ~file.readable)
             => fetch_status = [next_urls |-> None, meta |-> None, finished |-> None])
    /\ [][(Invoke /\ (~file.exists \/ ~file.readable))
             => /\ pc' = "loop"
                /\ next_urls' = <<Parts_Url>>
                /\ meta' = Some([total |-> -1, offset |-> -1, limit |-> -1])]_vars

\* a run has loaded the queue and the accumulator that an earlier run saved
C12_Witness ==
    /\ pc = "loop"
    /\ IsNone(url)
    /\ HasPending(file)
    /\ next_urls = Get(fetch_status.next_urls)
    /\ meta = fetch_status.meta
    /\ Get(meta).offset >= 0
    /\ IsNone(fetch_status.finished)

\* C13: whenever a checkpoint can be read, its finished date is set exactly
\* when no crawl is in progress, a crawl being in progress from the first pop
\* of a run until a run reaches Completed.
C13_FinishedIffNoCrawl ==
    (file.exists /\ file.readable) => (~IsNone(file.finished) <=> crawl = "none")

\* C13, amended: once a crawl in progress has saved a checkpoint the finished
\* date is absent until a run reaches Completed; the finished date is set in
\* every Completed state and only the step that reaches Completed writes it.
\* (The file is not rewritten when a new crawl pops its first url, and a run
\* cancelled before its first pop saves a file without a finished date.)
C13_FinishedOnlyByCompletion ==
    /\ [](crawl = "saved" => file.exists /\ file.readable /\ IsNone(file.finished))
    /\ [](pc = "Completed" => file.exists /\ file.readable /\ ~IsNone(file.finished))
    /\ [][(~IsNone(file'.finished) /\ file'.finished # file.finished)
             => pc' = "Completed" /\ crawl' = "none"]_vars

\* the crawl that follows a completed one has saved a checkpoint and awaits
\* its resumption after a failure
C13_Witness ==
    /\ crawl = "saved"
    /\ pc = "Failed"
    /\ now >= Week
    /\ IsNone(file.finished)
    /\ HasPending(file)

\* C14: the flag set by the signal handler never preempts work. Once set it
\* stays set for the rest of the run and no further url is popped; a fetch
\* whose url was popped before still takes place; the upsert and the
\* checkpoint save of the iteration in progress still happen; the loop test
\* that sees the flag leaves the loop, and the run ends Interrupted with a
\* final checkpoint that has no finished date.
C14_FlagNeverPreempts ==
    /\ [][(graceful_exit /\ pc \in Running) => (graceful_exit' /\ url' = url)]_vars
    /\ [][(graceful_exit /\ pc = "fetch" /\ pc' # pc)
             => \E r \in Responses : Fetch(r)]_vars
    /\ [][(graceful_exit /\ pc = "insert" /\ pc' # pc)
             => /\ "upsert" \in done'
                /\ file' = save_status(Some(next_urls), meta, FALSE)
                /\ \/ pc' = "loop"
                   \/ pc' = "Failed" /\ exit_code' = EXIT_INSERT]_vars
    /\ [][(graceful_exit /\ pc = "loop" /\ pc' # pc)
             => pc' = "final" /\ next_urls' = next_urls]_vars
    /\ [][(graceful_exit /\ pc = "final" /\ pc' # pc)
             => /\ pc' = "Interrupted"
                /\ file' = [exists |-> TRUE, readable |-> TRUE, finished |-> None,
                            meta |-> meta, next_urls |-> Some(next_urls)]]_vars

\* with the flag set an iteration has enqueued the next url, upserted its
\* page and saved its checkpoint, and urls are still pending at the loop test
C14_Witness ==
    /\ graceful_exit
    /\ pc = "loop"
    /\ done = {"enqueue", "upsert"}
    /\ next_urls # <<>>
    /\ file = save_status(Some(next_urls), meta, FALSE)

\* C15: a run that loads a checkpoint with a finished date at least a week
\* old starts from scratch: its queue is the start url alone and its
\* accumulator is total = offset = limit = -1, whatever the crawl before
\* stored; and while that finished date is still in the file, which is until
\* the first checkpoint save of the new crawl, no fetch ends in the offset
\* loop exit.
C15_RestartFromScratch ==
    /\ [][(Invoke /\ file.exists /\ file.readable /\ ~IsNone(file.finished)
                  /\ Get(file.finished) + Week <= now)
             => /\ pc' = "loop"
                /\ next_urls' = <<Parts_Url>>
                /\ meta' = Some([total |-> -1, offset |-> -1, limit |-> -1])]_vars
    /\ [][(pc = "fetch" /\ pc' # pc /\ file.exists /\ file.readable
                        /\ ~IsNone(file.finished))
             => /\ Get(url) = Parts_Url
                /\ Get(meta).offset = -1
                /\ ~(pc' = "Failed" /\ exit_code' = EXIT_OFFSET_LOOP)]_vars

\* the first page of a crawl started after the cooldown has been accepted:
\* the table holds parts of the crawl before, the accumulator holds the
\* offset of the new page and the file still has the old finished date
C15_Witness ==
    /\ pc = "insert"
    /\ file.exists /\ file.readable
    /\ ~IsNone(file.finished)
    /\ Get(file.finished) + Week <= now
    /\ Len(parts) >= 1
    /\ Get(meta).offset = 0

\* C16: within an iteration the upsert of the page comes before its next link
\* is examined and enqueued: a run that has exited because the next link
\* equals its own url has upserted that page, and a run that has exited
\* because the upsert failed has not enqueued the next link of that page.
C16_UpsertBeforeEnqueue ==
    /\ (pc = "Failed" /\ exit_code = EXIT_URL_LOOP) => "upsert" \in done
    /\ (pc = "Failed" /\ exit_code = EXIT_INSERT) => "enqueue" \notin done

\* C17: a run cannot fetch forever: whatever the next links and the metadata
\* of the responses, a run that is given its steps eventually reaches
\* Completed, Interrupted or Failed.
C17_RunTerminates == (pc \in Running) ~> (pc \in {"Completed", "Interrupted", "Failed"})

\* the payloads of the page the loop of lines 115-155 gets to: those before
\* the first "error"
Reached == {k \in 1..Len(Get(Get(page).data)) :
               \A j \in 1..k : Get(page).outcomes[j] # "error"}

\* the payloads whose commit succeeded
Committed == {k \in Reached : Get(page).outcomes[k] = "ok"}

\* C18: in the upsert of one page an IntegrityError is swallowed and any other
\* exception ends the page and the run. The rows stored before stay as they
\* are; the rows added are those of payloads whose commit succeeded and that
\* come before the first other exception, so every payload after a swallowed
\* IntegrityError whose commit succeeds is stored; without another exception
\* the checkpoint is saved and the run is back at its loop test, with one the
\* run is Failed with exit code -7.
C18_IntegrityErrorSwallowed ==
    [][(pc = "insert" /\ pc' # pc /\ ~IsNone(Get(page).data))
          => LET data == Get(Get(page).data)
             IN  /\ SubSeq(parts', 1, Len(parts)) = parts
                 /\ \A k \in Committed :
                        \E j \in 1..Len(parts') : parts'[j].aisler_id = data[k].id
                 /\ \A j \in (Len(parts) + 1)..Len(parts') :
                        \E k \in Committed : parts'[j] = db_part(data[k])
                 /\ IF Reached = 1..Len(data)
                    THEN /\ pc' = "loop"
                         /\ file' = save_status(Some(next_urls), meta, FALSE)
                    ELSE /\ pc' = "Failed"
                         /\ exit_code' = EXIT_INSERT]_vars

\* the first payload of a page met an IntegrityError, the second was stored
\* by this page and the run is back at its loop test with the checkpoint
\* saved
C18_Witness ==
    /\ pc = "loop"
    /\ ~IsNone(page)
    /\ ~IsNone(Get(page).data)
    /\ Len(Get(Get(page).data)) = 2
    /\ Get(page).outcomes = <<"integrity", "ok">>
    /\ found = {}
    /\ \E j \in 1..Len(parts) : parts[j] = db_part(Get(Get(page).data)[2])
    /\ \A j \in 1..Len(parts) : parts[j].aisler_id # Get(Get(page).data)[1].id
    /\ file = save_status(Some(next_urls), meta, FALSE)

\* C19: a run that leaves its loop with an empty queue and the flag set does
\* not write the finished date: it ends Interrupted with a checkpoint whose
\* pending list is empty and whose finished date is absent. The next
\* invocation loads the empty queue, pops nothing, and, when no signal reaches
\* it, ends Completed and writes the finished date. The finished date is only
\* ever written by a run at its final save with an empty queue and the flag
\* unset.
C19_CancelledOnLastPage ==
    /\ [][(pc = "final" /\ graceful_exit /\ next_urls = <<>> /\ pc' # pc)
             => /\ pc' = "Interrupted"
                /\ file' = [exists |-> TRUE, readable |-> TRUE, finished |-> None,
                            meta |-> meta, next_urls |-> Some(<<>>)]]_vars
    /\ [][(Invoke /\ file.exists /\ file.readable /\ IsNone(file.finished)
                  /\ file.next_urls = Some(<<>>))
             => pc' = "loop" /\ next_urls' = <<>> /\ IsNone(url')]_vars
    /\ [][(pc = "loop" /\ next_urls = <<>> /\ pc' # pc)
             => pc' = "final" /\ url' = url /\ next_urls' = <<>>]_vars
    /\ [][(pc = "final" /\ ~graceful_exit /\ pc' # pc)
             => /\ pc' = "Completed"
                /\ url' = url
                /\ file'.finished = Some(now)]_vars
    /\ [][(~IsNone(file'.finished) /\ file' # file)
             => pc = "final" /\ ~graceful_exit /\ next_urls = <<>>]_vars

\* a run cancelled while it processed its last page has ended Interrupted:
\* it popped and stored that page, its queue is empty, and the checkpoint has
\* an empty pending list and no finished date
C19_Witness ==
    /\ pc = "Interrupted"
    /\ graceful_exit
    /\ ~IsNone(url)
    /\ Len(parts) >= 1
    /\ next_urls = <<>>
    /\ file.next_urls = Some(<<>>)
    /\ IsNone(file.finished)

\* the rows of the table whose mpn has the value of item k as a substring,
\* letter case aside
Candidates(k) ==
    {r \in 1..Len(parts) :
        \E i \in 0..Len(parts[r].mpn) : \E j \in i..Len(parts[r].mpn) :
            LowerSeq(SubSeq(parts[r].mpn, i + 1, j)) = LowerSeq(items[k].value)}

====
